---- MODULE Spec2Model ----
(***************************************************************************)
(* The Abelian Lie conformal algebra of                                    *)
(* sage/algebras/lie_conformal_algebras/abelian_lie_conformal_algebra.py.  *)
(*                                                                         *)
(* The class has two methods: __init__, which defaults the generator       *)
(* names, standardizes names and index set, creates an empty dictionary of *)
(* structure constants and hands everything to the constructor of          *)
(* GradedLieConformalAlgebra; and _repr_.  The two collaborators           *)
(* (standardize_names_index_set and the graded base class) live in other   *)
(* files; they are modelled here from their documented contracts.          *)
(*                                                                         *)
(* Python values are modelled as follows.  An optional value is a record   *)
(* [tag, val]; tag "None" is Python's None.  A names argument is None, a   *)
(* str (tag "str", val the one-element sequence holding the string; the    *)
(* strings of the model hold no comma) or a tuple of str (tag "tuple").    *)
(* Tuples and lists are sequences, a dict is a function, and a dict        *)
(* OBJECT is an address into heap, so that two dicts with equal contents   *)
(* can still be told apart; addresses are the tokens "d0", "d1", ...       *)
(***************************************************************************)
EXTENDS Integers, Sequences, FiniteSets, TLC

VARIABLES
    status,   \* per object: "unborn", "built" (__init__ returned) or "failed" (__init__ raised)
    arg,      \* per object: the arguments its constructor was called with
    self,     \* per object: the attributes the constructors stored on it
    heap,     \* address -> contents of every dict created so far
    calls,    \* per object: the collaborator calls __init__ made, in order
    raised,   \* per object: the exception that left __init__, or NoError
    out       \* the value returned by the last read operation

vars == <<status, arg, self, heap, calls, raised, out>>

-----------------------------------------------------------------------------
(* Bounds of the model *)

MaxNgens == 3     \* ngens ranges over 1..MaxNgens
MaxOrder == 2     \* derivative orders m, n of T^m a range over 0..MaxOrder

-----------------------------------------------------------------------------
(* Python values *)

None == [tag |-> "None", val |-> <<>>]
Some(v) == [tag |-> "some", val |-> v]
Str(s) == [tag |-> "str", val |-> <<s>>]
Tuple(t) == [tag |-> "tuple", val |-> t]

NoError == "NoError"
Unset == [tag |-> "unset", val |-> <<>>]
NoTable == "no dict"
EmptyDict == [k \in {} |-> 0]

Objs == {1, 2}
Callers == {"c1", "c2"}

IsInjective(s) == \A i, j \in 1..Len(s) : s[i] = s[j] => i = j

RECURSIVE Concat(_)
Concat(toks) == IF toks = <<>> THEN "" ELSE Head(toks) \o Concat(Tail(toks))

-----------------------------------------------------------------------------
(* The arguments a caller may pass *)

Rings == {"QQ", "ZZ"}
NamesArgs == {None, Str("a"), Str("x"), Tuple(<<"x", "y">>), Tuple(<<"x", "x">>),
              Tuple(<<"x", "y", "z">>)}
IndexSetArgs == {None, Some(<<"p", "q">>), Some(<<"p", "p">>), Some(<<"p", "q", "r">>)}
WeightsArgs == {None, Some(<<2, 1>>)}
ParityArgs == {None, Some(<<0, 1>>)}

Args == [R : Rings, ngens : 1..MaxNgens, weights : WeightsArgs,
         parity : ParityArgs, names : NamesArgs, index_set : IndexSetArgs]

NoArgs == [R |-> "", ngens |-> 0, weights |-> None, parity |-> None,
           names |-> None, index_set |-> None]

-----------------------------------------------------------------------------
(* standardize_names_index_set(names, index_set, ngens), by its contract:  *)
(* a str of names becomes a tuple; one name with ngens > 1 is a stem and   *)
(* becomes stem0 .. stem(ngens-1); without an index set the names index    *)
(* themselves; without names the generators are named after their          *)
(* indices; names, index set and ngens must agree in cardinality and hold  *)
(* no duplicates, or the validation error is raised.                       *)

InconsistentGeneratorSpecification == "InconsistentGeneratorSpecification"

StemNames(stem, ngens) == [i \in 1..ngens |-> stem \o ToString(i - 1)]

standardize_names_index_set(names, index_set, ngens) ==
    LET given == IF names.tag = "None" THEN <<>> ELSE names.val
        nms == IF names.tag # "None" /\ Len(given) = 1 /\ ngens > 1
               THEN StemNames(given[1], ngens) ELSE given
        idx == IF index_set.tag = "None" THEN nms ELSE index_set.val
        bad == \/ names.tag = "None" /\ index_set.tag = "None"
               \/ ~IsInjective(nms)
               \/ ~IsInjective(idx)
               \/ names.tag # "None" /\ Len(nms) # Len(idx)
               \/ names.tag # "None" /\ Len(nms) # ngens
               \/ Len(idx) # ngens
    IN  IF bad
        THEN [err |-> InconsistentGeneratorSpecification, names |-> <<>>, index_set |-> <<>>]
        ELSE [err |-> NoError,
              names |-> IF names.tag = "None" THEN idx ELSE nms,
              index_set |-> idx]

-----------------------------------------------------------------------------
(* GradedLieConformalAlgebra.__init__(R, s_coeff, names, index_set,        *)
(* weights, parity), by its contract: one generator per index, weights     *)
(* default to 1 for each generator, weights and parity must have one entry *)
(* per generator, no central elements unless given.                        *)

BaseConstructorError == "BaseConstructorError"

GradedLieConformalAlgebra_init(ba) ==
    LET n == Len(ba.index_set)
        bad == \/ ba.weights.tag # "None" /\ Len(ba.weights.val) # n
               \/ ba.parity.tag # "None" /\ Len(ba.parity.val) # n
    IN  IF bad
        THEN [err |-> BaseConstructorError, fields |-> <<>>]
        ELSE [err |-> NoError,
              fields |-> [base_ring |-> ba.R,
                          s_coeff |-> ba.s_coeff,
                          names |-> ba.names,
                          index_set |-> ba.index_set,
                          weights |-> IF ba.weights.tag = "None"
                                      THEN [i \in 1..n |-> 1] ELSE ba.weights.val,
                          parity |-> ba.parity,
                          central |-> <<>>]]

-----------------------------------------------------------------------------
(* AbelianLieConformalAlgebra.__init__ *)

\* lines 89-90: the default stem
DefaultNames(names, index_set) ==
    IF names.tag = "None" /\ index_set.tag = "None" THEN Str("a") ELSE names

\* Mutant of LatexNames: range(1, ngens), one label short
LatexNames_from_one(ngens) == [i \in 1..(ngens - 1) |-> "a_{" \o ToString(i) \o "}"]

\* line 91: tuple(r'a_{%d}' % i for i in range(ngens))
LatexNames(ngens) == [i \in 1..ngens |-> "a_{" \o ToString(i - 1) \o "}"]

\* lines 89 and 91: self._latex_names is assigned only in the default branch
StoredLatexNames(names, index_set, ngens) ==
    IF names.tag = "None" /\ index_set.tag = "None"
    THEN Some(LatexNames(ngens)) ELSE Unset

\* Mutant of StdArgs: ngens is not forwarded, the call runs with ngens=1
StdArgs_ngens_not_forwarded(names, index_set, ngens) ==
    [names |-> names, index_set |-> index_set, ngens |-> 1]

\* lines 93-95: the arguments of the standardization call
StdArgs(names, index_set, ngens) ==
    [names |-> names, index_set |-> index_set, ngens |-> ngens]

\* Mutant of abeliandict: the generator brackets with itself, [a, a] = Ta
abeliandict_self_bracket == (<<"a", "a">> :> (0 :> (<<"a", 1>> :> 1)))

\* Mutant of abeliandict: a Heisenberg-like entry, [a0 _lambda a1] = lambda K
abeliandict_heisenberg == (<<"a0", "a1">> :> (1 :> (<<"K", 0>> :> 1)))

\* line 96: abeliandict = {}
abeliandict == EmptyDict

\* Mutant of NewDict: one dict shared by all instances (a class-level or
\* default-argument dict)
NewDict_shared(h) == "d0"

\* line 96: a dict display creates a new dict object at every evaluation
NewDict(h) == "d" \o ToString(Cardinality(DOMAIN h))

\* Mutant of BaseArgs: parity defaults to all even instead of staying None
BaseArgs_parity_defaulted(R, table, names, index_set, weights, parity) ==
    [R |-> R, s_coeff |-> table, names |-> names, index_set |-> index_set,
     weights |-> weights,
     parity |-> IF parity.tag = "None" THEN Some([i \in 1..Len(names) |-> 0]) ELSE parity]

\* Mutant of BaseArgs: weights and parity passed in each other's place
BaseArgs_swapped(R, table, names, index_set, weights, parity) ==
    [R |-> R, s_coeff |-> table, names |-> names, index_set |-> index_set,
     weights |-> parity, parity |-> weights]

\* lines 98-100: the arguments of the base constructor call
BaseArgs(R, table, names, index_set, weights, parity) ==
    [R |-> R, s_coeff |-> table, names |-> names, index_set |-> index_set,
     weights |-> weights, parity |-> parity]

StdCall(sa) ==
    [fn |-> "standardize_names_index_set", R |-> "", s_coeff |-> NoTable,
     names |-> sa.names, index_set |-> sa.index_set, ngens |-> sa.ngens,
     weights |-> None, parity |-> None]

BaseCall(ba) ==
    [fn |-> "GradedLieConformalAlgebra.__init__", R |-> ba.R, s_coeff |-> ba.s_coeff,
     names |-> Tuple(ba.names), index_set |-> Some(ba.index_set), ngens |-> 0,
     weights |-> ba.weights, parity |-> ba.parity]

Blank == [latex_names |-> Unset, base_ring |-> "", s_coeff |-> NoTable,
          names |-> <<>>, index_set |-> <<>>, weights |-> <<>>,
          parity |-> None, central |-> <<>>]

\* Mutant of StdFailure: the error is caught and another one raised in its place
StdFailure_replaced(latex, sa, st) ==
    [status |-> "failed", raised |-> "ValueError", calls |-> <<StdCall(sa)>>,
     self |-> [Blank EXCEPT !.latex_names = latex], newdict |-> FALSE]

\* lines 93-95: the call is in no try block, so what it raises leaves __init__
StdFailure(latex, sa, st) ==
    [status |-> "failed", raised |-> st.err, calls |-> <<StdCall(sa)>>,
     self |-> [Blank EXCEPT !.latex_names = latex], newdict |-> FALSE]

\* lines 98-100: likewise for the base constructor
BaseOutcome(latex, sa, ba, b) ==
    IF b.err # NoError
    THEN [status |-> "failed", raised |-> b.err, calls |-> <<StdCall(sa), BaseCall(ba)>>,
          self |-> [Blank EXCEPT !.latex_names = latex], newdict |-> TRUE]
    ELSE [status |-> "built", raised |-> NoError, calls |-> <<StdCall(sa), BaseCall(ba)>>,
          self |-> [latex_names |-> latex] @@ b.fields, newdict |-> TRUE]

\* lines 89-100, the whole constructor; h is the heap it runs on
init(a, h) ==
    LET latex == StoredLatexNames(a.names, a.index_set, a.ngens)
        sa == StdArgs(DefaultNames(a.names, a.index_set), a.index_set, a.ngens)
        st == standardize_names_index_set(sa.names, sa.index_set, sa.ngens)
        ba == BaseArgs(a.R, NewDict(h), st.names, st.index_set, a.weights, a.parity)
    IN  IF st.err # NoError
        THEN StdFailure(latex, sa, st)
        ELSE BaseOutcome(latex, sa, ba, GradedLieConformalAlgebra_init(ba))

NoOut == [op |-> "none", caller |-> "", obj |-> 0, operands |-> <<>>,
          seq |-> <<>>, dict |-> EmptyDict, text |-> ""]

\* AbelianLieConformalAlgebra(R, ngens, weights, parity, names, index_set):
\* objects are created one after the other, each constructed once.
Construct(o, a) ==
    /\ status[o] = "unborn"
    /\ \A p \in Objs : p < o => status[p] # "unborn"
    /\ LET r == init(a, heap)
       IN  /\ status' = [status EXCEPT ![o] = r.status]
           /\ arg' = [arg EXCEPT ![o] = a]
           /\ self' = [self EXCEPT ![o] = r.self]
           /\ calls' = [calls EXCEPT ![o] = r.calls]
           /\ raised' = [raised EXCEPT ![o] = r.raised]
           /\ heap' = IF r.newdict
                      THEN (r.calls[2].s_coeff :> abeliandict) @@ heap
                      ELSE heap
    /\ out' = NoOut

-----------------------------------------------------------------------------
(* The read operations of a built structure.  gens(), bracket,             *)
(* structure_coefficients() and central_elements() are inherited from the  *)
(* base class and modelled by their contracts; _repr_ is lines 102-112.    *)

RECURSIVE Fact(_)
Fact(n) == IF n <= 0 THEN 1 ELSE n * Fact(n - 1)

Binom(n, i) == Fact(n) \div (Fact(i) * Fact(n - i))

RECURSIVE SumOver(_, _)
SumOver(S, f) ==
    IF S = {} THEN 0
    ELSE LET x == CHOOSE y \in S : TRUE IN f[x] + SumOver(S \ {x}, f)

\* [T^m a _lambda T^n b] = (-lambda)^m (lambda + T)^n [a _lambda b], with
\* [a _lambda b] read from the table: tbl[<<a, b>>][j] is the coefficient of
\* lambda^j / j!, an element given as a function from basis keys <<g, d>>
\* (standing for T^d g) to nonzero integers.  A pair without an entry has
\* the zero bracket, the empty dict.
bracket(tbl, a, m, b, n) ==
    IF <<a, b>> \notin DOMAIN tbl THEN EmptyDict
    ELSE LET e == tbl[<<a, b>>]
             Ks == {m + j + i : j \in DOMAIN e, i \in 0..n}
             Keys == UNION {{<<bk[1], bk[2] + n - i>> : bk \in DOMAIN e[j], i \in 0..n}
                            : j \in DOMAIN e}
             term(k, key, j) ==
                 LET i == k - m - j
                 IN  (IF m % 2 = 0 THEN 1 ELSE -1) * Binom(n, i)
                     * (Fact(k) \div Fact(j)) * e[j][<<key[1], key[2] - (n - i)>>]
             coef(k, key) ==
                 LET Js == {j \in DOMAIN e :
                              /\ k - m - j \in 0..n
                              /\ <<key[1], key[2] - (n - (k - m - j))>> \in DOMAIN e[j]}
                 IN  SumOver(Js, [j \in Js |-> term(k, key, j)])
             elem(k) == [key \in {kk \in Keys : coef(k, kk) # 0} |-> coef(k, key)]
         IN  [k \in {kk \in Ks : DOMAIN elem(kk) # {}} |-> elem(k)]

\* gens(): one generator per index, in the order of the index set; a
\* generator is identified and printed by its name
gens(o) == self[o].names

\* structure_coefficients(): the family of the table handed to the base
structure_coefficients(o) == heap[self[o].s_coeff]

\* central_elements()
central_elements(o) == self[o].central

\* base_ring() and the text of a ring
base_ring(o) == self[o].base_ring

RingRepr(R) == IF R = "QQ" THEN "Rational Field" ELSE "Integer Ring"

RECURSIVE CommaSeparated(_)
CommaSeparated(s) ==
    IF Len(s) = 0 THEN <<>>
    ELSE IF Len(s) = 1 THEN <<s[1]>>
    ELSE <<s[1], ", ">> \o CommaSeparated(Tail(s))

\* str.format of a tuple: Python prints (x,) for one element
TupleRepr(s) ==
    IF Len(s) = 1 THEN <<"(", s[1], ",)">>
    ELSE <<"(">> \o CommaSeparated(s) \o <<")">>

\* Mutant of repr: the two format arguments in each other's place
repr_swapped(g, R) ==
    <<"The Abelian Lie conformal algebra with generators ", RingRepr(R), " over ">>
        \o TupleRepr(g)

\* lines 111-112; the pieces format() joins, in order
repr(g, R) ==
    <<"The Abelian Lie conformal algebra with generators ">> \o TupleRepr(g)
        \o <<" over ", RingRepr(R)>>

Gens(c, o) ==
    /\ status[o] = "built"
    /\ out' = [NoOut EXCEPT !.op = "gens", !.caller = c, !.obj = o, !.seq = gens(o)]
    /\ UNCHANGED <<status, arg, self, heap, calls, raised>>

Bracket(c, o, i, m, j, n) ==
    /\ status[o] = "built"
    /\ i \in 1..Len(gens(o))
    /\ j \in 1..Len(gens(o))
    /\ out' = [NoOut EXCEPT !.op = "bracket", !.caller = c, !.obj = o,
                            !.operands = <<gens(o)[i], m, gens(o)[j], n>>,
                            !.dict = bracket(structure_coefficients(o),
                                             gens(o)[i], m, gens(o)[j], n)]
    /\ UNCHANGED <<status, arg, self, heap, calls, raised>>

StructureCoefficients(c, o) ==
    /\ status[o] = "built"
    /\ out' = [NoOut EXCEPT !.op = "structure_coefficients", !.caller = c, !.obj = o,
                            !.dict = structure_coefficients(o)]
    /\ UNCHANGED <<status, arg, self, heap, calls, raised>>

CentralElements(c, o) ==
    /\ status[o] = "built"
    /\ out' = [NoOut EXCEPT !.op = "central_elements", !.caller = c, !.obj = o,
                            !.seq = central_elements(o)]
    /\ UNCHANGED <<status, arg, self, heap, calls, raised>>

\* Mutant of Repr: the printed labels are cached on the object
Repr_caching(c, o) ==
    /\ status[o] = "built"
    /\ out' = [NoOut EXCEPT !.op = "repr", !.caller = c, !.obj = o,
                            !.seq = repr(gens(o), base_ring(o)),
                            !.text = Concat(repr(gens(o), base_ring(o)))]
    /\ self' = [self EXCEPT ![o].latex_names = Some(gens(o))]
    /\ UNCHANGED <<status, arg, heap, calls, raised>>

\* _repr_, lines 102-112
Repr(c, o) ==
    /\ status[o] = "built"
    /\ out' = [NoOut EXCEPT !.op = "repr", !.caller = c, !.obj = o,
                            !.seq = repr(gens(o), base_ring(o)),
                            !.text = Concat(repr(gens(o), base_ring(o)))]
    /\ UNCHANGED <<status, arg, self, heap, calls, raised>>

-----------------------------------------------------------------------------
(* Specifications *)

Init ==
    /\ status = [o \in Objs |-> "unborn"]
    /\ arg = [o \in Objs |-> NoArgs]
    /\ self = [o \in Objs |-> Blank]
    /\ heap = EmptyDict
    /\ calls = [o \in Objs |-> <<>>]
    /\ raised = [o \in Objs |-> NoError]
    /\ out = NoOut

\* One structure: its construction, then its read operations, called by
\* several callers in any order.
Next ==
    \/ \E a \in Args : Construct(1, a)
    \/ \E c \in Callers : Gens(c, 1)
    \/ \E c \in Callers, i, j \in 1..MaxNgens, m, n \in 0..MaxOrder : Bracket(c, 1, i, m, j, n)
    \/ \E c \in Callers : StructureCoefficients(c, 1)
    \/ \E c \in Callers : CentralElements(c, 1)
    \/ \E c \in Callers : Repr(c, 1)

Spec == Init /\ [][Next]_vars

\* Two structures constructed one after the other.
NextPair == \E o \in Objs, a \in Args : Construct(o, a)

SpecPair == Init /\ [][NextPair]_vars

-----------------------------------------------------------------------------
(* Properties *)

Built(o) == status[o] = "built"
Constructed(o) == status[o] # "unborn"
ByDefault(a) == a.names.tag = "None" /\ a.index_set.tag = "None"

\* C1: for every built structure, every ordered pair of generators (equal
\* or not) and all derivative orders m, n, bracket(T^m g1, T^n g2) is the
\* zero element, the empty expansion.
C1_BracketIsZero ==
    out.op = "bracket" => out.dict = EmptyDict

\* the doctest's a0.bracket(a1.T(2)) has been evaluated
C1_Witness ==
    /\ out.op = "bracket"
    /\ out.operands = <<"a0", 0, "a1", 2>>
    /\ out.dict = EmptyDict

\* C2: for every built structure, whatever ngens, weights and parity were,
\* structure_coefficients() is the empty mapping, central_elements() is
\* empty, and the table handed to the base constructor has no entry.
C2_TableAndCentreEmpty ==
    /\ \A o \in Objs : Built(o) =>
          /\ DOMAIN heap[calls[o][2].s_coeff] = {}
          /\ self[o].s_coeff = calls[o][2].s_coeff
          /\ self[o].central = <<>>
    /\ out.op = "structure_coefficients" => DOMAIN out.dict = {}
    /\ out.op = "central_elements" => out.seq = <<>>

\* structure_coefficients() was read on a structure built with weights and parity
C2_Witness ==
    /\ out.op = "structure_coefficients"
    /\ Built(1)
    /\ arg[1].weights # None
    /\ arg[1].parity # None
    /\ arg[1].ngens = 2

\* C3: for every ngens >= 1, construction with weights, parity, names and
\* index set all absent succeeds and yields exactly ngens generators, each
\* of weight 1, and no parity.
C3_Defaults ==
    \A o \in Objs :
        (Constructed(o) /\ ByDefault(arg[o])
            /\ arg[o].weights = None /\ arg[o].parity = None) =>
        /\ Built(o)
        /\ Len(self[o].names) = arg[o].ngens
        /\ Len(self[o].weights) = arg[o].ngens
        /\ \A i \in 1..Len(self[o].weights) : self[o].weights[i] = 1
        /\ self[o].parity = None

\* a structure of three generators was built from defaults
C3_Witness ==
    /\ Built(1)
    /\ ByDefault(arg[1])
    /\ arg[1].weights = None
    /\ arg[1].parity = None
    /\ arg[1].ngens = 3

\* The supplied names, index set and ngens disagree in cardinality or hold
\* duplicates.  One supplied name is a stem and stands for ngens names.
NameCount(a) == IF Len(a.names.val) = 1 THEN a.ngens ELSE Len(a.names.val)

Inconsistent(a) ==
    \/ a.names.tag # "None" /\ NameCount(a) # a.ngens
    \/ a.index_set.tag # "None" /\ Len(a.index_set.val) # a.ngens
    \/ a.names.tag # "None" /\ a.index_set.tag # "None"
          /\ NameCount(a) # Len(a.index_set.val)
    \/ a.names.tag # "None" /\ ~IsInjective(a.names.val)
    \/ a.index_set.tag # "None" /\ ~IsInjective(a.index_set.val)

\* C4: when names, index set and ngens are inconsistent, construction
\* raises the validation error of the standardization routine, unchanged,
\* the base constructor is never called and nothing is constructed.
C4_InconsistentRaises ==
    \A o \in Objs :
        (Constructed(o) /\ Inconsistent(arg[o])) =>
        /\ status[o] = "failed"
        /\ raised[o] = InconsistentGeneratorSpecification
        /\ Len(calls[o]) = 1
        /\ calls[o][1].fn = "standardize_names_index_set"
        /\ self[o] = Blank
        /\ DOMAIN heap = {calls[p][2].s_coeff : p \in {q \in Objs : Len(calls[q]) = 2}}

\* three names with a two-element index set
C4_Witness ==
    /\ status[1] = "failed"
    /\ arg[1].names = Tuple(<<"x", "y", "z">>)
    /\ arg[1].index_set = Some(<<"p", "q">>)

IsGeneratorLabel(t) == \E i \in 1..Len(self[1].names) : self[1].names[i] = t

\* C5: the text of a structure is "The Abelian Lie conformal algebra with
\* generators <tuple> over <ring>", the tuple listing every generator once
\* in construction order; for ngens=2 and default names the labels are a0
\* then a1, followed by the text of the base ring.
C5_Repr ==
    out.op = "repr" =>
        LET n == Len(out.seq)
        IN  /\ out.text = Concat(out.seq)
            /\ out.seq[1] = "The Abelian Lie conformal algebra with generators "
            /\ out.seq[2] = "("
            /\ SelectSeq(SubSeq(out.seq, 3, n - 3), IsGeneratorLabel) = self[1].names
            /\ out.seq[n - 2] \in {")", ",)"}
            /\ out.seq[n - 1] = " over "
            /\ out.seq[n] = (IF arg[1].R = "QQ" THEN "Rational Field" ELSE "Integer Ring")
            /\ (ByDefault(arg[1]) /\ arg[1].ngens = 2 /\ arg[1].R = "QQ") =>
                   out.text = "The Abelian Lie conformal algebra with generators (a0, a1) over Rational Field"
            /\ (ByDefault(arg[1]) /\ arg[1].ngens = 1 /\ arg[1].R = "QQ") =>
                   out.text = "The Abelian Lie conformal algebra with generators (a,) over Rational Field"

\* the doctest's structure Abelian(QQ, 2) was printed
C5_Witness ==
    /\ out.op = "repr"
    /\ ByDefault(arg[1])
    /\ arg[1].ngens = 2
    /\ out.text = "The Abelian Lie conformal algebra with generators (a0, a1) over Rational Field"

\* C6: two constructions with identical arguments end alike (both built or
\* both raising the same error); when built, the two structures have equal
\* generators, equal weights and parity, equal and empty tables, and each
\* has its own table object.
C6_SameArgsSameStructure ==
    (Constructed(1) /\ Constructed(2) /\ arg[1] = arg[2]) =>
        /\ status[1] = status[2]
        /\ raised[1] = raised[2]
        /\ Built(1) =>
            /\ self[1].names = self[2].names
            /\ self[1].index_set = self[2].index_set
            /\ self[1].weights = self[2].weights
            /\ self[1].parity = self[2].parity
            /\ heap[self[1].s_coeff] = heap[self[2].s_coeff]
            /\ heap[self[1].s_coeff] = EmptyDict
            /\ self[1].s_coeff # self[2].s_coeff

\* two structures built from the same arguments, weights and parity given
C6_Witness ==
    /\ Built(1)
    /\ Built(2)
    /\ arg[1] = arg[2]
    /\ arg[1].weights # None
    /\ arg[1].parity # None

\* The number of elements of the index set the caller supplied; an absent
\* index set holds none.
SuppliedCardinality(a) == Len(a.index_set.val)

\* C7 as stated: exactly ngens generators when neither names nor index set
\* is supplied; in every other built structure as many generators as the
\* supplied index set has elements; one name and one index per generator.
C7_AsStated ==
    \A o \in Objs : Built(o) =>
        /\ ByDefault(arg[o]) => Len(gens(o)) = arg[o].ngens
        /\ ~ByDefault(arg[o]) => Len(gens(o)) = SuppliedCardinality(arg[o])
        /\ Len(self[o].names) = Len(self[o].index_set)
        /\ IsInjective(self[o].names)
        /\ IsInjective(self[o].index_set)

\* C7, amended: exactly ngens generators when neither names nor index set
\* is supplied; as many as the supplied index set has elements when an
\* index set is supplied; and when only names are supplied, as many as
\* there are canonical names, which index themselves and number ngens; one
\* name and one index per generator.
C7_GeneratorCount ==
    \A o \in Objs : Built(o) =>
        /\ ByDefault(arg[o]) => Len(gens(o)) = arg[o].ngens
        /\ arg[o].index_set.tag # "None" =>
               Len(gens(o)) = SuppliedCardinality(arg[o])
        /\ (arg[o].index_set.tag = "None" /\ arg[o].names.tag # "None") =>
               /\ Len(gens(o)) = arg[o].ngens
               /\ self[o].index_set = self[o].names
        /\ Len(self[o].names) = Len(self[o].index_set)
        /\ IsInjective(self[o].names)
        /\ IsInjective(self[o].index_set)

\* structures built from names alone: a stem with ngens=3
C7_Witness ==
    /\ Built(1)
    /\ arg[1].names = Str("x")
    /\ arg[1].index_set = None
    /\ arg[1].ngens = 3
    /\ Len(gens(1)) = 3

\* C8: once the constructor has returned, no step (every later step is a
\* read operation by some caller) changes the structure: its generators,
\* index set, weights, parity, base ring, display labels and table stay as
\* constructed, and the table stays empty.
C8_ReadsChangeNothing ==
    [][\A o \in Objs : Built(o) =>
          /\ status'[o] = status[o]
          /\ self'[o] = self[o]
          /\ arg'[o] = arg[o]
          /\ heap'[self[o].s_coeff] = heap[self[o].s_coeff]
          /\ heap'[self[o].s_coeff] = EmptyDict]_vars

\* the second caller has printed a structure built with explicit names
C8_Witness ==
    /\ Built(1)
    /\ out.op = "repr"
    /\ out.caller = "c2"
    /\ arg[1].names = Tuple(<<"x", "y">>)

\* C9: a successful construction calls the standardization routine once,
\* with the (possibly defaulted) names, the index set and ngens, and then
\* the base constructor once, with the canonical names and index set the
\* routine returned, an empty table, and the caller's base ring, weights
\* and parity as they were passed.
C9_CallOrder ==
    \A o \in Objs : Built(o) =>
        /\ Len(calls[o]) = 2
        /\ calls[o][1].fn = "standardize_names_index_set"
        /\ calls[o][1].names = (IF ByDefault(arg[o]) THEN Str("a") ELSE arg[o].names)
        /\ calls[o][1].index_set = arg[o].index_set
        /\ calls[o][1].ngens = arg[o].ngens
        /\ calls[o][2].fn = "GradedLieConformalAlgebra.__init__"
        /\ LET st == standardize_names_index_set(calls[o][1].names,
                                                 calls[o][1].index_set,
                                                 calls[o][1].ngens)
           IN  /\ calls[o][2].names = Tuple(st.names)
               /\ calls[o][2].index_set = Some(st.index_set)
        /\ heap[calls[o][2].s_coeff] = EmptyDict
        /\ calls[o][2].R = arg[o].R
        /\ calls[o][2].weights = arg[o].weights
        /\ calls[o][2].parity = arg[o].parity

\* built from a stem, so that the canonical names differ from the names
\* passed, with weights given and parity absent
C9_Witness ==
    /\ Built(1)
    /\ arg[1].names = Str("x")
    /\ arg[1].ngens = 2
    /\ arg[1].weights = Some(<<2, 1>>)
    /\ arg[1].parity = None
    /\ calls[1][2].names = Tuple(<<"x0", "x1">>)

\* C10: display labels are stored exactly when names and index set are
\* both absent; then there are ngens of them, a_{0} .. a_{ngens-1}, as many
\* as generators; and the structure is the one obtained by passing the
\* stem 'a' explicitly: same outcome, generators, weights, parity, table.
C10_DisplayLabels ==
    /\ \A o \in Objs : Constructed(o) =>
          IF ByDefault(arg[o])
          THEN /\ self[o].latex_names.tag = "some"
               /\ Len(self[o].latex_names.val) = arg[o].ngens
               /\ Built(o) => Len(self[o].latex_names.val) = Len(self[o].names)
               /\ \A i \in 1..arg[o].ngens :
                      self[o].latex_names.val[i] = "a_{" \o ToString(i - 1) \o "}"
          ELSE self[o].latex_names = Unset
    /\ (/\ Constructed(1) /\ Constructed(2)
        /\ ByDefault(arg[1])
        /\ arg[2] = [arg[1] EXCEPT !.names = Str("a")]) =>
          /\ status[1] = status[2]
          /\ self[1].names = self[2].names
          /\ self[1].index_set = self[2].index_set
          /\ self[1].weights = self[2].weights
          /\ self[1].parity = self[2].parity
          /\ Built(1) => heap[self[1].s_coeff] = heap[self[2].s_coeff]

\* one generator, named a by default in the first structure and by the
\* explicit stem in the second
C10_Witness ==
    /\ Built(1)
    /\ Built(2)
    /\ ByDefault(arg[1])
    /\ arg[1].ngens = 1
    /\ arg[2] = [arg[1] EXCEPT !.names = Str("a")]
    /\ self[1].latex_names = Some(<<"a_{0}">>)
    /\ self[2].latex_names = Unset
    /\ self[1].names = <<"a">>

====
